---- MODULE Spec2Model ----
(***************************************************************************)
(* The contributor node of the BLS threshold aggregation protocol:         *)
(* Contributor::new and the message loop Contributor::run of               *)
(* src/handlers/contributor.rs.                                            *)
(*                                                                         *)
(* Keys are small integers ordered as the public keys are (Ord).  An       *)
(* Option or a Result is a sequence of length at most one: <<>> is         *)
(* None/Err, <<x>> is Some(x)/Ok(x).  Member indexes are 0-based as in     *)
(* the code, so contributors[i] of the code is contributors[i + 1] here.   *)
(***************************************************************************)
EXTENDS Integers, Sequences, FiniteSets, Bags, TLC

\* ------------------------------------------------------------- bounds
NumMembers == 3
MaxRound == 2
MaxMeta == 2

Members == 1..NumMembers
\* Two keys outside the contributor set: an external orchestrator and a stranger.
Keys == 1..(NumMembers + 2)
Rounds == 1..MaxRound
\* Metadata 0 is the task the validator rejects; the others it accepts.
Metadata == 0..MaxMeta
ValidMetadata == 1..MaxMeta

None == <<>>
Some(x) == <<x>>

\* ------------------------------------------------------------- BLS (bn254)
\* A G1 point is a formal sum of sk_k * H(payload) terms: a bag of <<k, payload>>.
sign(k, payload) == SetToBag({<<k, payload>>})

RECURSIVE SumPoints(_)
SumPoints(points) ==
    IF points = <<>> THEN EmptyBag
    ELSE Head(points) (+) SumPoints(Tail(points))

\* aggregate_signatures(&sigs) -> Option<Signature>
aggregate_signatures(sigs) ==
    IF sigs = <<>> THEN None ELSE Some(SumPoints(sigs))

\* aggregate_verify(pks, None, payload, sig): e(sig, g2) = e(H(payload), sum pks)
aggregate_verify(pks, payload, sig) ==
    sig = SumPoints([i \in 1..Len(pks) |-> sign(pks[i], payload)])

\* Signature::to_vec and Sig::try_from: the bytes of a point, and bytes that are none.
to_vec(sig) == <<sig>>
BadSigBytes == <<>>
try_from(bytes) == IF Len(bytes) = 1 THEN Some(bytes[1]) ELSE None

\* ------------------------------------------------------------- wire codec
StartPayload == [tag |-> "Start", sig |-> <<>>]
NoPayload == [tag |-> "None", sig |-> <<>>]
SignaturePayload(bytes) == [tag |-> "Signature", sig |-> bytes]

\* message.write(&mut buf)
Encode(message) == <<message.round, message.metadata, message.payload>>

\* wire::Aggregation::read
Decode(bytes) ==
    IF Len(bytes) = 3
    THEN Some([round |-> bytes[1], metadata |-> bytes[2], payload |-> bytes[3]])
    ELSE None

Garbage == <<>>

\* validator.validate_and_return_expected_hash(&buf): the canonical payload of the
\* task (round, metadata), whatever the payload variant; Err for a rejected task.
validate_and_return_expected_hash(buf) ==
    LET m == Decode(buf) IN
    IF m = None THEN None
    ELSE IF m[1].metadata \in ValidMetadata
         THEN Some(<<m[1].round, m[1].metadata>>)
         ELSE None

\* ------------------------------------------------------------- construction
Range(s) == {s[i] : i \in 1..Len(s)}

\* contributors.sort()
SortKeys(contributors) == SortSeq(contributors, LAMBDA a, b : a < b)

\* for (idx, contributor) in enumerate: ordered_contributors.insert(contributor, idx)
Enumerate(contributors) ==
    [k \in Range(contributors) |->
        CHOOSE idx \in 0..(Len(contributors) - 1) :
            /\ contributors[idx + 1] = k
            /\ \A j \in 0..(Len(contributors) - 1) : contributors[j + 1] = k => j <= idx]

\* Contributor::new; aggregation_input is None or Some([threshold, g1_map])
new(orchestrator, signer, contributors, aggregation_input) ==
    LET sorted == SortKeys(contributors)
        ordered_contributors == Enumerate(sorted)
        me == ordered_contributors[signer]
    IN [orchestrator |-> orchestrator,
        signer |-> signer,
        me |-> me,
        aggregation_data |->
            IF aggregation_input # None
            THEN Some([threshold |-> aggregation_input[1].threshold,
                       g1_map |-> aggregation_input[1].g1_map,
                       contributors |-> sorted,
                       ordered_contributors |-> ordered_contributors])
            ELSE None]

VARIABLES
    self,        \* the Contributor: orchestrator, signer, me, aggregation_data
    signed,      \* run: let mut signed = HashSet::new()
    signatures,  \* run: let mut signatures: HashMap<u64, HashMap<usize, Sig>>
    sent,        \* what sender.send has broadcast, in order
    events,      \* the "aggregated signatures" events logged, in order
    pc,          \* where run is: "recv" awaiting receiver.recv(), or how it ended
    carrier      \* history: for each stored partial, the (sender, bytes) that brought it

vars == <<self, signed, signatures, sent, events, pc, carrier>>

\* How run ends: Ok(()), an Err from `?`, or a panic.
Returned == {"ok", "err_validator", "err_send"}
Panicked == {"panic_aggregate_verify", "panic_g1_map"}

\* Every sender taken for the orchestrator
is_orchestrator_AnySender(sender) == TRUE

is_orchestrator(sender) == self.orchestrator = sender

get_contributor_index(public_key) ==
    IF self.aggregation_data # None
    THEN IF public_key \in DOMAIN self.aggregation_data[1].ordered_contributors
         THEN Some(self.aggregation_data[1].ordered_contributors[public_key])
         ELSE None
    ELSE None

\* ------------------------------------------------------------- run: helpers
\* HashMap::insert
Insert(map, key, value) ==
    [x \in (DOMAIN map) \cup {key} |-> IF x = key THEN value ELSE map[x]]

\* The result of handling one inbound message: the state of run after it, and the
\* place of the code where the handling ended.
Continue(outcome) ==
    [signed |-> signed, signatures |-> signatures, sent |-> sent,
     events |-> events, pc |-> "recv", carrier |-> carrier, outcome |-> outcome]

\* The round's entry created on demand: entry(round).or_default()
RoundEntry_OrDefault(round) ==
    Some(IF round \in DOMAIN signatures THEN signatures[round] ELSE <<>>)

\* signatures.get_mut(&round)
RoundEntry(round) ==
    IF round \in DOMAIN signatures THEN Some(signatures[round]) ELSE None

\* The duplicate check left out
ContributorAlreadySigned_NoCheck(sigs, contributor) == FALSE

\* signatures.contains_key(contributor)
ContributorAlreadySigned(sigs, contributor) == contributor \in DOMAIN sigs

\* The individual verification left out
VerifyPartial_Skipped(s, payload, signature) == TRUE

\* aggregate_verify(std::slice::from_ref(&s), None, &payload, &signature)
VerifyPartial(s, payload, signature) ==
    aggregate_verify(<<s>>, payload, signature)

\* The comparison off by one: aggregates one partial early
BelowThreshold_OneEarly(sigs, threshold) == Cardinality(DOMAIN sigs) + 1 < threshold

\* The comparison inclusive: still waits when the threshold is met
BelowThreshold_Inclusive(sigs, threshold) == Cardinality(DOMAIN sigs) <= threshold

\* signatures.len() < threshold
BelowThreshold(sigs, threshold) == Cardinality(DOMAIN sigs) < threshold

\* The round never recorded as signed
AlreadySigned_NeverRecorded(round) == FALSE

\* !signed.insert(round)
AlreadySigned(round) == round \in signed

\* The walk over the members starting at index 1
PresentIndexes_FromOne(contributors, sigs) ==
    SelectSeq([i \in 1..(Len(contributors) - 1) |-> i], LAMBDA i : i \in DOMAIN sigs)

\* The walk over the members from the last index down
PresentIndexes_Descending(contributors, sigs) ==
    SelectSeq([i \in 1..Len(contributors) |-> Len(contributors) - i],
              LAMBDA i : i \in DOMAIN sigs)

\* for (i, contributor) in contributors.iter().enumerate(): the indexes that signed
PresentIndexes(contributors, sigs) ==
    SelectSeq([i \in 1..Len(contributors) |-> i - 1], LAMBDA i : i \in DOMAIN sigs)

\* ------------------------------------------------------------- run: aggregation
\* The round's partials discarded when the aggregation fails
AggregateFailed_DiscardsPartial(stored) ==
    [stored EXCEPT !.signatures = signatures, !.outcome = "aggregate_failed"]

\* let Some(agg_signature) = aggregate_signatures(&sigs) else { continue }
AggregateFailed(stored) == [stored EXCEPT !.outcome = "aggregate_failed"]

\* aggOk is whether aggregate_signatures returns a point for a list that is not
\* empty.
Aggregate(stored, round, payload, sigs1, data, aggOk) ==
    LET present == PresentIndexes(data.contributors, sigs1)
        participating == [j \in 1..Len(present) |-> data.contributors[present[j] + 1]]
        sigs == [j \in 1..Len(present) |-> sigs1[present[j]]]
        agg_signature == IF aggOk THEN aggregate_signatures(sigs) ELSE None
    IN
    IF \E j \in 1..Len(participating) : participating[j] \notin DOMAIN data.g1_map
    THEN \* g1_map[contributor] indexes a missing key
         [stored EXCEPT !.pc = "panic_g1_map", !.outcome = "panic_g1_map"]
    ELSE IF agg_signature = None
    THEN AggregateFailed(stored)
    ELSE IF ~aggregate_verify(participating, payload, agg_signature[1])
    THEN [stored EXCEPT !.pc = "panic_aggregate_verify",
                        !.outcome = "panic_aggregate_verify"]
    ELSE [stored EXCEPT
             !.outcome = "aggregated",
             !.events = Append(events, [round |-> round,
                                        msg |-> payload,
                                        participating |-> participating,
                                        signature |-> agg_signature[1]])]

\* ------------------------------------------------------------- run: a peer's message
HandlePeer(s, bytes, message, data, aggOk) ==
    LET round == message.round
        contributor == get_contributor_index(s)
        entry == RoundEntry(round)
    IN
    IF contributor = None THEN Continue("contributor_not_found")
    ELSE IF entry = None THEN Continue("signatures_not_found")
    ELSE IF ContributorAlreadySigned(entry[1], contributor[1])
    THEN Continue("contributor_already_signed")
    ELSE IF message.payload.tag # "Signature" THEN Continue("signature_not_found")
    ELSE
    LET signature == try_from(message.payload.sig) IN
    IF signature = None THEN Continue("not_a_valid_signature")
    ELSE
    LET payload == validate_and_return_expected_hash(Encode(message)) IN
    IF payload = None THEN Continue("failed_to_validate_payload")
    ELSE IF ~VerifyPartial(s, payload[1], signature[1])
    THEN Continue("invalid_signature")
    ELSE
    LET sigs1 == Insert(entry[1], contributor[1], signature[1])
        stored == [Continue("stored") EXCEPT
                      !.signatures = Insert(signatures, round, sigs1),
                      !.carrier = Insert(carrier, <<round, contributor[1]>>,
                                         [sender |-> s, bytes |-> bytes])]
    IN
    IF BelowThreshold(sigs1, data.threshold) THEN stored
    ELSE Aggregate(stored, round, payload[1], sigs1, data, aggOk)

\* ------------------------------------------------------------- run: the orchestrator's
\* The reply built with an empty task instead of the Start's metadata
Reply_DefaultMetadata(message, signature) ==
    [round |-> message.round,
     metadata |-> 0,
     payload |-> SignaturePayload(to_vec(signature))]

\* The reply built for another round than the Start's
Reply_OtherRound(message, signature) ==
    [round |-> (message.round % MaxRound) + 1,
     metadata |-> message.metadata,
     payload |-> SignaturePayload(to_vec(signature))]

\* wire::Aggregation { round, metadata: message.metadata.clone(),
\*                     payload: Some(Payload::Signature(signature.to_vec())) }
Reply(message, signature) ==
    [round |-> message.round,
     metadata |-> message.metadata,
     payload |-> SignaturePayload(to_vec(signature))]

\* The broadcast made twice
Broadcast_Twice(buf) ==
    sent \o << [recipients |-> "All", message |-> buf, reliable |-> TRUE],
               [recipients |-> "All", message |-> buf, reliable |-> TRUE] >>

\* sender.send(Recipients::All, Bytes::from(buf), true) returning Ok
Broadcast(buf) ==
    Append(sent, [recipients |-> "All", message |-> buf, reliable |-> TRUE])

\* The error of sender.send ignored: the loop goes on
SendFailed_Ignored(done) == [done EXCEPT !.outcome = "send_error"]

\* sender.send returning Err: map_err(..)? returns it from run
SendFailed(done) == [done EXCEPT !.pc = "err_send", !.outcome = "send_error"]

HandleOrchestrator(s, bytes, message, sendOk) ==
    LET round == message.round IN
    IF message.payload.tag # "Start" THEN Continue("not_start")
    ELSE IF ~is_orchestrator(s) THEN Continue("not_from_orchestrator")
    ELSE IF AlreadySigned(round) THEN Continue("already_signed")
    ELSE
    LET signed1 == signed \cup {round}
        payload == validate_and_return_expected_hash(Encode(message))
    IN
    IF payload = None
    THEN [Continue("validator_error") EXCEPT
             !.signed = signed1, !.pc = "err_validator"]
    ELSE
    LET signature == sign(self.signer, payload[1])
        \* signatures.entry(round).or_default().insert(self.me, signature)
        entry == IF round \in DOMAIN signatures THEN signatures[round] ELSE <<>>
        signatures1 == Insert(signatures, round, Insert(entry, self.me, signature))
        reply == Reply(message, signature)
        done == [Continue("broadcast") EXCEPT
                    !.signed = signed1,
                    !.signatures = signatures1,
                    !.carrier = Insert(carrier, <<round, self.me>>,
                                       [sender |-> s, bytes |-> bytes])]
    IN
    IF ~sendOk
    THEN SendFailed(done)
    ELSE [done EXCEPT !.sent = Broadcast(Encode(reply))]

\* ------------------------------------------------------------- run: one iteration
\* The aggregation branch taken for the orchestrator's messages too
IsPeerMessage_AnySender(s) == self.aggregation_data # None

\* if let Some(AggregationData { .. }) = self.aggregation_data && !self.is_orchestrator(&s)
IsPeerMessage(s) == self.aggregation_data # None /\ ~is_orchestrator(s)

\* The branch chosen by the payload, not by the sender: every message that is
\* not a Start is taken for a peer's
Iteration_DispatchByPayload(s, bytes, sendOk, aggOk) ==
    LET decoded == Decode(bytes) IN
    IF decoded = None THEN Continue("undecodable")
    ELSE IF self.aggregation_data # None /\ decoded[1].payload.tag # "Start"
    THEN HandlePeer(s, bytes, decoded[1], self.aggregation_data[1], aggOk)
    ELSE HandleOrchestrator(s, bytes, decoded[1], sendOk)

\* The body of `while let Ok((s, message)) = receiver.recv().await`; sendOk and
\* aggOk are whether sender.send and aggregate_signatures succeed, should the
\* iteration call them.
Iteration(s, bytes, sendOk, aggOk) ==
    LET decoded == Decode(bytes) IN
    IF decoded = None THEN Continue("undecodable")
    ELSE IF IsPeerMessage(s)
    THEN HandlePeer(s, bytes, decoded[1], self.aggregation_data[1], aggOk)
    ELSE HandleOrchestrator(s, bytes, decoded[1], sendOk)

\* The iteration in which aggregate_signatures succeeds, as it does on valid
\* points.
Handle(s, bytes, sendOk) == Iteration(s, bytes, sendOk, TRUE)

\* ------------------------------------------------------------- AggregatingContributor
\* The AggregatingContributor built for the membership, orchestrator, signer,
\* threshold and g1 map of the Contributor: its fields.
AggregatingContributor ==
    [orchestrator |-> self.orchestrator,
     signer |-> self.signer,
     me |-> self.me,
     g1_map |-> self.aggregation_data[1].g1_map,
     contributors |-> self.aggregation_data[1].contributors,
     ordered_contributors |-> self.aggregation_data[1].ordered_contributors,
     threshold |-> self.aggregation_data[1].threshold]

\* The comparison inclusive: still waits when the threshold is met
AggregatingBelowThreshold_Inclusive(sigs) ==
    Cardinality(DOMAIN sigs) <= AggregatingContributor.threshold

\* signatures.len() < self.threshold
AggregatingBelowThreshold(sigs) ==
    Cardinality(DOMAIN sigs) < AggregatingContributor.threshold

\* AggregatingContributor::run, the branch `if s != self.orchestrator`
AggregatingHandlePeer(s, bytes, message, aggOk) ==
    LET this == AggregatingContributor
        round == message.round
    IN
    IF s \notin DOMAIN this.ordered_contributors
    THEN Continue("contributor_not_found")
    ELSE IF round \notin DOMAIN signatures THEN Continue("signatures_not_found")
    ELSE
    LET contributor == this.ordered_contributors[s] IN
    IF contributor \in DOMAIN signatures[round]
    THEN Continue("contributor_already_signed")
    ELSE IF message.payload.tag # "Signature" THEN Continue("signature_not_found")
    ELSE
    LET signature == try_from(message.payload.sig) IN
    IF signature = None THEN Continue("not_a_valid_signature")
    ELSE
    LET payload == validate_and_return_expected_hash(Encode(message)) IN
    IF payload = None THEN Continue("failed_to_validate_payload")
    ELSE IF ~aggregate_verify(<<s>>, payload[1], signature[1])
    THEN Continue("invalid_signature")
    ELSE
    LET sigs1 == Insert(signatures[round], contributor, signature[1])
        stored == [Continue("stored") EXCEPT
                      !.signatures = Insert(signatures, round, sigs1),
                      !.carrier = Insert(carrier, <<round, contributor>>,
                                         [sender |-> s, bytes |-> bytes])]
    IN
    IF AggregatingBelowThreshold(sigs1) THEN stored
    ELSE
    \* for i in 0..self.contributors.len()
    LET present == SelectSeq([j \in 1..Len(this.contributors) |-> j - 1],
                             LAMBDA i : i \in DOMAIN sigs1)
        participating == [j \in 1..Len(present) |-> this.contributors[present[j] + 1]]
        sigs == [j \in 1..Len(present) |-> sigs1[present[j]]]
        agg_signature == IF aggOk THEN aggregate_signatures(sigs) ELSE None
    IN
    IF \E j \in 1..Len(participating) : participating[j] \notin DOMAIN this.g1_map
    THEN [stored EXCEPT !.pc = "panic_g1_map", !.outcome = "panic_g1_map"]
    ELSE IF agg_signature = None
    THEN [stored EXCEPT !.outcome = "aggregate_failed"]
    ELSE IF ~aggregate_verify(participating, payload[1], agg_signature[1])
    THEN [stored EXCEPT !.pc = "panic_aggregate_verify",
                        !.outcome = "panic_aggregate_verify"]
    ELSE [stored EXCEPT
             !.outcome = "aggregated",
             !.events = Append(events, [round |-> round,
                                        msg |-> payload[1],
                                        participating |-> participating,
                                        signature |-> agg_signature[1]])]

\* AggregatingContributor::run, after the branch: the orchestrator's message.
\* The task fields var1, var2, var3 of its wire format are the metadata.
AggregatingHandleOrchestrator(s, bytes, message, sendOk) ==
    LET this == AggregatingContributor
        round == message.round
    IN
    IF message.payload.tag # "Start" THEN Continue("not_start")
    ELSE IF round \in signed THEN Continue("already_signed")
    ELSE
    LET signed1 == signed \cup {round}
        payload == validate_and_return_expected_hash(Encode(message))
    IN
    IF payload = None
    THEN [Continue("validator_error") EXCEPT
             !.signed = signed1, !.pc = "err_validator"]
    ELSE
    LET signature == sign(this.signer, payload[1])
        entry == IF round \in DOMAIN signatures THEN signatures[round] ELSE <<>>
        reply == [round |-> round,
                  metadata |-> message.metadata,
                  payload |-> SignaturePayload(to_vec(signature))]
        done == [Continue("broadcast") EXCEPT
                    !.signed = signed1,
                    !.signatures = Insert(signatures, round,
                                          Insert(entry, this.me, signature)),
                    !.carrier = Insert(carrier, <<round, this.me>>,
                                       [sender |-> s, bytes |-> bytes])]
    IN
    IF ~sendOk
    THEN [done EXCEPT !.pc = "err_send", !.outcome = "send_error"]
    ELSE [done EXCEPT
             !.sent = Append(sent, [recipients |-> "All",
                                    message |-> Encode(reply),
                                    reliable |-> TRUE])]

\* The body of the loop of AggregatingContributor::run
AggregatingIteration(s, bytes, sendOk, aggOk) ==
    LET decoded == Decode(bytes) IN
    IF decoded = None THEN Continue("undecodable")
    ELSE IF s # AggregatingContributor.orchestrator
    THEN AggregatingHandlePeer(s, bytes, decoded[1], aggOk)
    ELSE AggregatingHandleOrchestrator(s, bytes, decoded[1], sendOk)

\* ------------------------------------------------------------- inputs
\* The points a peer may put in a Signature payload: a member's signature over a
\* task of any round.
Points == {sign(k, <<r, m>>) : k \in Members, r \in Rounds, m \in ValidMetadata}

Payloads ==
    {StartPayload, NoPayload, SignaturePayload(BadSigBytes)}
        \cup {SignaturePayload(to_vec(p)) : p \in Points}

Messages == [round : Rounds, metadata : Metadata, payload : Payloads]

Inbound == {Garbage} \cup {Encode(m) : m \in Messages}

\* The contributors as the caller lists them: unsorted.
ContributorsInput == [i \in 1..NumMembers |-> NumMembers + 1 - i]

\* The aggregation inputs of the data model: 1 <= threshold <= n and a g1 key for
\* every member.
AggregationInputs ==
    {None} \cup {Some([threshold |-> t, g1_map |-> [k \in Members |-> k]]) :
                    t \in 1..NumMembers}

\* The aggregation inputs AggregationInput::new accepts: any threshold, and a g1
\* map for any set of keys (here: every member, or none, as in the tests).
AnyAggregationInputs ==
    {None} \cup {Some([threshold |-> t, g1_map |-> [k \in D |-> k]]) :
                    t \in 0..(NumMembers + 1), D \in {Members, {}}}

\* The contributor lists Contributor::new accepts: the keys in any order, with or
\* without repeats.
AnyContributorsInputs == [1..NumMembers -> Members]

\* ------------------------------------------------------------- specification
Init ==
    /\ \E orchestrator \in 1..(NumMembers + 1), signer \in Members,
          aggregation_input \in AggregationInputs :
          self = new(orchestrator, signer, ContributorsInput, aggregation_input)
    /\ signed = {}
    /\ signatures = <<>>
    /\ sent = <<>>
    /\ events = <<>>
    /\ pc = "recv"
    /\ carrier = <<>>

Apply(result) ==
    /\ signed' = result.signed
    /\ signatures' = result.signatures
    /\ sent' = result.sent
    /\ events' = result.events
    /\ pc' = result.pc
    /\ carrier' = result.carrier
    /\ UNCHANGED self

\* recv yields (s, bytes); a send the iteration makes succeeds.
Deliver ==
    /\ pc = "recv"
    /\ \E s \in Keys, bytes \in Inbound : Apply(Handle(s, bytes, TRUE))

\* recv yields (s, bytes); the iteration calls sender.send, which fails.
DeliverSendError ==
    /\ pc = "recv"
    /\ \E s \in Keys, bytes \in Inbound :
          /\ Handle(s, bytes, FALSE).outcome = "send_error"
          /\ Apply(Handle(s, bytes, FALSE))

\* The error of recv returned from run as an error
RecvError_ReturnsErr ==
    /\ pc = "recv"
    /\ pc' = "err_recv"
    /\ UNCHANGED <<self, signed, signatures, sent, events, carrier>>

\* recv returns an error: the loop ends and run returns Ok(()).
RecvError ==
    /\ pc = "recv"
    /\ pc' = "ok"
    /\ UNCHANGED <<self, signed, signatures, sent, events, carrier>>

Next == Deliver \/ DeliverSendError \/ RecvError

\* recv yields (s, bytes); the iteration calls aggregate_signatures, which
\* returns None.
DeliverAggregateFails ==
    /\ pc = "recv"
    /\ \E s \in Keys, bytes \in Inbound :
          /\ Iteration(s, bytes, TRUE, FALSE).outcome = "aggregate_failed"
          /\ Apply(Iteration(s, bytes, TRUE, FALSE))

NextAggregateFails == Next \/ DeliverAggregateFails

Spec == Init /\ [][Next]_vars

\* An aggregator whose orchestrator is outside the contributors.
InitAggregator ==
    /\ \E signer \in Members, aggregation_input \in AggregationInputs \ {None} :
          self = new(NumMembers + 1, signer, ContributorsInput, aggregation_input)
    /\ signed = {}
    /\ signatures = <<>>
    /\ sent = <<>>
    /\ events = <<>>
    /\ pc = "recv"
    /\ carrier = <<>>

\* run of an aggregator with an aggregate_signatures that may fail.
SpecAggregateFails == InitAggregator /\ [][NextAggregateFails]_vars

\* AggregatingContributor::run: recv yields (s, bytes); a send and an aggregation
\* the iteration makes succeed.
AggregatingDeliver ==
    /\ pc = "recv"
    /\ \E s \in Keys, bytes \in Inbound :
          Apply(AggregatingIteration(s, bytes, TRUE, TRUE))

\* The iteration calls sender.send, which fails.
AggregatingDeliverSendError ==
    /\ pc = "recv"
    /\ \E s \in Keys, bytes \in Inbound :
          /\ AggregatingIteration(s, bytes, FALSE, TRUE).outcome = "send_error"
          /\ Apply(AggregatingIteration(s, bytes, FALSE, TRUE))

\* The iteration calls aggregate_signatures, which returns None.
AggregatingDeliverAggregateFails ==
    /\ pc = "recv"
    /\ \E s \in Keys, bytes \in Inbound :
          /\ AggregatingIteration(s, bytes, TRUE, FALSE).outcome = "aggregate_failed"
          /\ Apply(AggregatingIteration(s, bytes, TRUE, FALSE))

NextAggregating ==
    \/ AggregatingDeliver
    \/ AggregatingDeliverSendError
    \/ AggregatingDeliverAggregateFails
    \/ RecvError

\* AggregatingContributor::run on the nodes of InitAggregator.
SpecAggregating == InitAggregator /\ [][NextAggregating]_vars

\* A node constructed with any aggregation input the constructors accept.
InitAnyInput ==
    /\ \E orchestrator \in 1..(NumMembers + 1), signer \in Members,
          aggregation_input \in AnyAggregationInputs :
          self = new(orchestrator, signer, ContributorsInput, aggregation_input)
    /\ signed = {}
    /\ signatures = <<>>
    /\ sent = <<>>
    /\ events = <<>>
    /\ pc = "recv"
    /\ carrier = <<>>

SpecAnyInput == InitAnyInput /\ [][Next]_vars

\* A node constructed from any contributor list that holds the signer's key, with
\* an orchestrator outside the list.
InitAnyMembers ==
    /\ \E contributors \in AnyContributorsInputs, aggregation_input \in AggregationInputs :
          \E signer \in Range(contributors) :
              self = new(NumMembers + 1, signer, contributors, aggregation_input)
    /\ signed = {}
    /\ signatures = <<>>
    /\ sent = <<>>
    /\ events = <<>>
    /\ pc = "recv"
    /\ carrier = <<>>

SpecAnyMembers == InitAnyMembers /\ [][Next]_vars

\* The transport eventually closes: recv, awaited at the head of every iteration,
\* eventually returns its error.
LiveSpec == Spec /\ WF_vars(RecvError)

\* ------------------------------------------------------------- vocabulary of the claims
\* count(round) of the signature store
count(round) ==
    IF round \in DOMAIN signatures THEN Cardinality(DOMAIN signatures[round]) ELSE 0

IsAggregator == self.aggregation_data # None
Threshold == self.aggregation_data[1].threshold
Contributors == self.aggregation_data[1].contributors
OrderedContributors == self.aggregation_data[1].ordered_contributors

\* The positions of the log that hold an event of round r
EventsOf(r) == {i \in 1..Len(events) : events[i].round = r}

\* The positions of the outbound messages that are a Signature of round r
SentFor(r) ==
    {i \in 1..Len(sent) :
        LET m == Decode(sent[i].message) IN
        /\ m # None
        /\ m[1].round = r
        /\ m[1].payload.tag = "Signature"}

StartMessage(r, m) == Encode([round |-> r, metadata |-> m, payload |-> StartPayload])

\* The honest partial of key k for the task (r, m)
PartialMessage(k, r, m) ==
    Encode([round |-> r, metadata |-> m,
            payload |-> SignaturePayload(to_vec(sign(k, <<r, m>>)))])

\* The metadata of the Start that opened round r
StartMetadata(r) == Decode(carrier[<<r, self.me>>].bytes)[1].metadata

\* Every partial stored for r signs the task of the Start that opened r
AllOverStartTask(r) ==
    \A i \in DOMAIN signatures[r] :
        \E k \in Keys : signatures[r][i] = sign(k, <<r, StartMetadata(r)>>)

\* ------------------------------------------------------------- C1
\* C1: for every round r, whatever was received (repeated Starts for r with the
\* same or other metadata included), at most one outbound Signature message
\* carries round r.
C1_AtMostOnceOwnSigning == \A r \in Rounds : Cardinality(SentFor(r)) <= 1

\* A round whose Signature went out, where the orchestrator's Start for the same
\* round with other metadata arrives and is dropped.
C1_Witness ==
    /\ pc = "recv"
    /\ \E r \in Rounds, m \in ValidMetadata :
          /\ Cardinality(SentFor(r)) = 1
          /\ StartMetadata(r) # m
          /\ LET R == Handle(self.orchestrator, StartMessage(r, m), TRUE) IN
             R.outcome = "already_signed" /\ R.sent = sent

\* ------------------------------------------------------------- C2
\* C2 as stated: for every round r at most one aggregation event is emitted.
C2_AtMostOneEventPerRound == \A r \in Rounds : Cardinality(EventsOf(r)) <= 1

\* C2 amended: an aggregation is attempted in every step that stores a peer
\* partial for r at or above the threshold, not only the first.  So the events of
\* r are at most one per peer partial stored at or above the threshold, their
\* participant lists grow strictly, and after an event for r a valid partial of
\* a member that has not contributed yet is aggregated again.
C2_OneEventPerStoredPartial ==
    /\ ~IsAggregator => events = <<>>
    /\ IsAggregator =>
        \A r \in Rounds :
            /\ Cardinality(EventsOf(r))
                  <= Cardinality({c \in 2..count(r) : c >= Threshold})
            /\ \A i, j \in EventsOf(r) :
                  i < j =>
                      /\ Range(events[i].participating)
                            \subseteq Range(events[j].participating)
                      /\ Len(events[i].participating) < Len(events[j].participating)
            /\ EventsOf(r) # {} =>
                  \A s \in Range(Contributors) \ {self.orchestrator}, m \in ValidMetadata :
                      LET R == Handle(s, PartialMessage(s, r, m), TRUE) IN
                      OrderedContributors[s] \notin DOMAIN signatures[r] =>
                          /\ R.outcome \in {"aggregated", "panic_aggregate_verify"}
                          /\ (AllOverStartTask(r) /\ m = StartMetadata(r)) =>
                                /\ R.outcome = "aggregated"
                                /\ Len(R.events) = Len(events) + 1
                                /\ R.events[Len(R.events)].round = r

\* Two events were emitted for one round.
C2_Witness == \E r \in Rounds : Cardinality(EventsOf(r)) >= 2

\* ------------------------------------------------------------- C3
\* C3: the aggregate verification never fails, so run never aborts on it,
\* whatever metadata the peers' Signature messages of the round carry.
C3_AggregateVerifyNeverFails == pc # "panic_aggregate_verify"

\* ------------------------------------------------------------- C4
\* C4: every stored partial of an index other than self_index was carried by a
\* Signature message of that round whose transport sender is the member at that
\* index, and verifies under that sender's key against the canonical hash of the
\* same message; no partial is stored for a sender outside members.
C4_AuthenticatedProvenance ==
    \A r \in DOMAIN signatures :
        \A i \in DOMAIN signatures[r] :
            i # self.me =>
                /\ IsAggregator
                /\ i \in 0..(Len(Contributors) - 1)
                /\ <<r, i>> \in DOMAIN carrier
                /\ LET c == carrier[<<r, i>>]
                       m == Decode(c.bytes)
                       hash == validate_and_return_expected_hash(c.bytes)
                   IN /\ c.sender = Contributors[i + 1]
                      /\ m # None
                      /\ m[1].round = r
                      /\ m[1].payload.tag = "Signature"
                      /\ try_from(m[1].payload.sig) = Some(signatures[r][i])
                      /\ hash # None
                      /\ aggregate_verify(<<c.sender>>, hash[1], signatures[r][i])

\* A peer's partial is stored.
C4_Witness ==
    \E r \in DOMAIN signatures : \E i \in DOMAIN signatures[r] : i # self.me

\* ------------------------------------------------------------- C5
\* A step keeps every stored partial as it is.
C5_StoredPartialKept ==
    \A r \in DOMAIN signatures :
        /\ r \in DOMAIN signatures'
        /\ \A i \in DOMAIN signatures[r] :
              /\ i \in DOMAIN signatures'[r]
              /\ signatures'[r][i] = signatures[r][i]

\* A Signature message of a member whose partial of that round is stored changes nothing.
C5_DuplicateDropped ==
    \A s \in Keys, bytes \in Inbound :
        LET m == Decode(bytes)
            idx == get_contributor_index(s)
        IN
        ( /\ m # None
          /\ m[1].payload.tag = "Signature"
          /\ m[1].round \in DOMAIN signatures
          /\ idx # None
          /\ idx[1] \in DOMAIN signatures[m[1].round] )
        => LET R == Handle(s, bytes, TRUE) IN
           /\ R.signatures = signatures
           /\ R.events = events
           /\ R.sent = sent
           /\ R.pc = "recv"

\* C5: once partials[r][i] holds a partial, no inbound message from any sender
\* replaces or removes it; a further Signature message for round r from a member
\* whose partial is stored is dropped, whatever signature bytes it carries.
C5_FirstPartialWins == [][C5_StoredPartialKept]_vars /\ []C5_DuplicateDropped

\* A member whose partial is stored sends a partial over another task of the
\* round, valid under its key, and it is dropped as a duplicate.
C5_Witness ==
    /\ pc = "recv"
    /\ IsAggregator
    /\ \E r \in DOMAIN signatures, m \in ValidMetadata :
          \E s \in Range(Contributors) \ {self.signer} :
              /\ OrderedContributors[s] \in DOMAIN signatures[r]
              /\ signatures[r][OrderedContributors[s]] # sign(s, <<r, m>>)
              /\ LET R == Handle(s, PartialMessage(s, r, m), TRUE) IN
                 R.outcome = "contributor_already_signed" /\ R.signatures = signatures

\* ------------------------------------------------------------- C6
\* C6: every aggregation event of round r was emitted with count(r) >= threshold
\* and lists at least threshold keys; with threshold = n it lists exactly all the
\* members, self included.
C6_NoAggregationBelowThreshold ==
    /\ ~IsAggregator => events = <<>>
    /\ IsAggregator =>
          /\ \A i \in 1..Len(events) :
                /\ count(events[i].round) >= Threshold
                /\ Len(events[i].participating) >= Threshold
                /\ Threshold = Len(Contributors) =>
                      /\ events[i].participating = Contributors
                      /\ self.signer \in Range(events[i].participating)
          /\ \A s \in Keys, bytes \in Inbound :
                LET R == Handle(s, bytes, TRUE) IN
                R.events # events =>
                    /\ Decode(bytes) # None
                    /\ Cardinality(DOMAIN R.signatures[Decode(bytes)[1].round])
                          >= Threshold

\* With threshold = n, an event was emitted.
C6_Witness ==
    /\ IsAggregator
    /\ Threshold = Len(Contributors)
    /\ events # <<>>

\* ------------------------------------------------------------- C7
\* C7: on an aggregator, after the orchestrator's Start for r and valid Signature
\* messages for r with the Start's metadata, the step in which a further such
\* message of another member brings count(r) to the threshold emits an
\* aggregation event for r whose participating keys are exactly the members
\* that have a stored partial for r.
C7_ThresholdResponse ==
    IsAggregator =>
        \A r \in DOMAIN signatures :
            AllOverStartTask(r) =>
                \A s \in Range(Contributors) \ {self.signer} :
                    LET R == Handle(s, PartialMessage(s, r, StartMetadata(r)), TRUE) IN
                    ( /\ count(r) < Threshold
                      /\ Cardinality(DOMAIN R.signatures[r]) >= Threshold )
                    => /\ R.outcome = "aggregated"
                       /\ R.pc = "recv"
                       /\ Len(R.events) = Len(events) + 1
                       /\ LET e == R.events[Len(R.events)] IN
                          /\ e.round = r
                          /\ e.msg = <<r, StartMetadata(r)>>
                          /\ Range(e.participating) =
                                {Contributors[i + 1] : i \in DOMAIN R.signatures[r]}
                          /\ Len(e.participating) = Threshold
                          /\ aggregate_verify(e.participating, e.msg, e.signature)

\* The partial that brings the count to the threshold arrives and the event is emitted.
C7_Witness ==
    /\ pc = "recv"
    /\ IsAggregator
    /\ \E r \in DOMAIN signatures :
          /\ AllOverStartTask(r)
          /\ count(r) + 1 = Threshold
          /\ \E s \in Range(Contributors) \ {self.signer} :
                LET R == Handle(s, PartialMessage(s, r, StartMetadata(r)), TRUE) IN
                /\ R.outcome = "aggregated"
                /\ Len(R.events[Len(R.events)].participating) = Threshold

\* ------------------------------------------------------------- C8
\* C8 as stated: on an aggregator with threshold = 1 a round that holds a valid
\* partial, the node's own included, has its aggregation event.
C8_AggregatesOnOwnPartial ==
    (IsAggregator /\ Threshold = 1) =>
        \A r \in DOMAIN signatures : pc = "recv" => EventsOf(r) # {}

\* C8 amended: on an aggregator with threshold = 1 the handling of the
\* orchestrator's Start stores the node's own partial and emits no event: the
\* threshold is tested only when a peer's partial is stored.  The first event of
\* a round is emitted in the step that stores the first valid peer partial over
\* the Start's task, and lists self and that peer.
C8_AggregatesOnFirstPeerPartial ==
    (IsAggregator /\ Threshold = 1) =>
        /\ \A r \in DOMAIN signatures : count(r) = 1 => EventsOf(r) = {}
        /\ \A i \in 1..Len(events) : Len(events[i].participating) >= 2
        /\ \A r \in Rounds, m \in Metadata, sendOk \in BOOLEAN :
              LET R == Handle(self.orchestrator, StartMessage(r, m), sendOk) IN
              /\ R.events = events
              /\ (r \notin signed /\ m \in ValidMetadata) =>
                    DOMAIN R.signatures[r] = {self.me}
        /\ \A r \in DOMAIN signatures :
              count(r) = 1 =>
                  \A s \in Range(Contributors) \ {self.signer, self.orchestrator} :
                      LET R == Handle(s, PartialMessage(s, r, StartMetadata(r)), TRUE) IN
                      /\ R.outcome = "aggregated"
                      /\ R.events =
                            Append(events,
                                   [round |-> r,
                                    msg |-> <<r, StartMetadata(r)>>,
                                    participating |->
                                        SortKeys(<<self.signer, s>>),
                                    signature |->
                                        sign(self.signer, <<r, StartMetadata(r)>>)
                                            (+) sign(s, <<r, StartMetadata(r)>>)])

\* With threshold = 1 the Start was handled, the own partial is the only one of
\* the round and no event exists; the first peer partial then yields the event.
C8_Witness ==
    /\ pc = "recv"
    /\ IsAggregator
    /\ Threshold = 1
    /\ \E r \in DOMAIN signatures :
          /\ count(r) = 1
          /\ SentFor(r) # {}
          /\ EventsOf(r) = {}
          /\ \E s \in Range(Contributors) \ {self.signer, self.orchestrator} :
                Handle(s, PartialMessage(s, r, StartMetadata(r)), TRUE).outcome
                    = "aggregated"

\* ------------------------------------------------------------- C9
\* C9: handling a message whose sender is not the orchestrator never ends run,
\* neither by an error return nor by an abort: the loop is back at recv.
C9_PeerInputNeverTerminates ==
    \A s \in Keys \ {self.orchestrator}, bytes \in Inbound, sendOk \in BOOLEAN :
        Handle(s, bytes, sendOk).pc \notin Returned \cup Panicked

\* ------------------------------------------------------------- C10
\* A Signature message for a round without an entry stores nothing; only the
\* orchestrator's Start creates the entry, holding the own partial alone.
C10_EarlyPartialNotStored ==
    \A s \in Keys, bytes \in Inbound :
        LET m == Decode(bytes) IN
        (m # None /\ m[1].round \notin DOMAIN signatures) =>
            LET R == Handle(s, bytes, TRUE) IN
            /\ m[1].payload.tag = "Signature" =>
                  /\ R.signatures = signatures
                  /\ R.carrier = carrier
            /\ m[1].round \in DOMAIN R.signatures =>
                  /\ m[1].payload.tag = "Start"
                  /\ is_orchestrator(s)
                  /\ DOMAIN R.signatures[m[1].round] = {self.me}

\* The step that creates the entry of a round leaves count(round) = 1.
C10_CountAfterStart ==
    \A r \in Rounds :
        (r \notin DOMAIN signatures /\ r \in DOMAIN signatures') => count(r)' = 1

\* C10: a Signature message for a round without an entry in partials is never
\* stored, and is not counted when the orchestrator's Start for the round is
\* handled later: count(r) right after that Start is exactly 1.
C10_EarlyPartialsDropped == [][C10_CountAfterStart]_vars /\ []C10_EarlyPartialNotStored

\* While another round is collecting partials, a member's valid partial arrives
\* for a round that has no entry and is dropped; the Start for that round then
\* leaves the own partial alone in the round.
C10_Witness ==
    /\ pc = "recv"
    /\ IsAggregator
    /\ \E r2 \in DOMAIN signatures : count(r2) >= 2
    /\ \E r \in Rounds \ DOMAIN signatures, m \in ValidMetadata :
          /\ \E s \in Range(Contributors) \ {self.signer, self.orchestrator} :
                LET R == Handle(s, PartialMessage(s, r, m), TRUE) IN
                R.outcome = "signatures_not_found" /\ R.signatures = signatures
          /\ DOMAIN Handle(self.orchestrator, StartMessage(r, m), TRUE).signatures[r]
                = {self.me}

\* ------------------------------------------------------------- C11
\* C11: a Start message whose sender is not the orchestrator (a member or not,
\* on an aggregator or not, the round having an entry or not) never triggers
\* signing: nothing is sent, and signed and signatures are unchanged.
C11_SpoofedStartIgnored ==
    \A s \in Keys \ {self.orchestrator}, r \in Rounds, m \in Metadata,
       sendOk \in BOOLEAN :
        LET R == Handle(s, StartMessage(r, m), sendOk) IN
        /\ R.sent = sent
        /\ R.signed = signed
        /\ R.signatures = signatures
        /\ R.events = events
        /\ R.pc = "recv"
        /\ R.outcome \notin {"broadcast", "send_error", "validator_error"}

\* On an aggregator a member that has no partial stored for an open round sends a
\* Start for it, and so does a stranger for a round that is not open: both are
\* dropped.
C11_Witness ==
    /\ pc = "recv"
    /\ IsAggregator
    /\ \E r \in DOMAIN signatures, m \in ValidMetadata :
          \E s \in Range(Contributors) \ {self.orchestrator} :
              /\ OrderedContributors[s] \notin DOMAIN signatures[r]
              /\ Handle(s, StartMessage(r, m), TRUE).outcome = "signature_not_found"
    /\ \E r \in Rounds \ signed, m \in ValidMetadata :
          \E s \in Keys \ (Range(Contributors) \cup {self.orchestrator}) :
              Handle(s, StartMessage(r, m), TRUE).outcome = "contributor_not_found"

\* ------------------------------------------------------------- C12
\* C12: every outbound Signature message of round r carries the signature by
\* the node's key of canonical_hash(e), e being the re-encoding of the decoded
\* orchestrator Start that triggered it; it carries the round and the metadata
\* of that Start; the same signature is stored at signatures[r][me]; what is
\* signed is never the raw message bytes.
C12_SignedPayloadConsistency ==
    \A i \in 1..Len(sent) :
        LET m == Decode(sent[i].message) IN
        /\ m # None
        /\ m[1].payload.tag = "Signature"
        /\ <<m[1].round, self.me>> \in DOMAIN carrier
        /\ LET r == m[1].round
               c == carrier[<<r, self.me>>]
               start == Decode(c.bytes)
           IN
           /\ c.sender = self.orchestrator
           /\ start # None
           /\ start[1].payload.tag = "Start"
           /\ start[1].round = r
           /\ m[1].metadata = start[1].metadata
           /\ LET hash == validate_and_return_expected_hash(Encode(start[1])) IN
              /\ hash # None
              /\ try_from(m[1].payload.sig) = Some(sign(self.signer, hash[1]))
              /\ aggregate_verify(<<self.signer>>, hash[1], try_from(m[1].payload.sig)[1])
              /\ r \in DOMAIN signatures
              /\ self.me \in DOMAIN signatures[r]
              /\ signatures[r][self.me] = sign(self.signer, hash[1])
              /\ signatures[r][self.me] # sign(self.signer, c.bytes)
              /\ signatures[r][self.me] # sign(self.signer, sent[i].message)

\* Two rounds were signed, over Starts of different metadata.
C12_Witness ==
    /\ Len(sent) = 2
    /\ Decode(sent[1].message)[1].metadata # Decode(sent[2].message)[1].metadata
    /\ Decode(sent[1].message)[1].round # Decode(sent[2].message)[1].round

\* ------------------------------------------------------------- C13
\* C13: in every aggregation event the participating keys are strictly
\* ascending by member index, without repeats, whatever the order in which the
\* partials arrived.
C13_ParticipantsAscending ==
    IsAggregator =>
        /\ \A i \in 1..Len(events) :
              LET p == events[i].participating IN
              /\ \A j \in 1..Len(p) : p[j] \in DOMAIN OrderedContributors
              /\ \A j, k \in 1..Len(p) :
                    j < k => OrderedContributors[p[j]] < OrderedContributors[p[k]]
        /\ \A r \in DOMAIN signatures :
              \A s \in Range(Contributors) \ {self.orchestrator}, m \in ValidMetadata :
                  LET R == Handle(s, PartialMessage(s, r, m), TRUE) IN
                  R.outcome = "aggregated" =>
                      LET p == R.events[Len(R.events)].participating IN
                      /\ Range(p) = {Contributors[i + 1] : i \in DOMAIN R.signatures[r]}
                      /\ \A j, k \in 1..Len(p) :
                            j < k => OrderedContributors[p[j]] < OrderedContributors[p[k]]

\* The partial of the member of index 0 arrives last, after those of every other
\* member, and the event lists it first.
C13_Witness ==
    /\ pc = "recv"
    /\ IsAggregator
    /\ self.me # 0
    /\ \E r \in DOMAIN signatures :
          /\ DOMAIN signatures[r] = 1..(Len(Contributors) - 1)
          /\ LET s == Contributors[1]
                 R == Handle(s, PartialMessage(s, r, StartMetadata(r)), TRUE)
             IN /\ R.outcome = "aggregated"
                /\ R.events[Len(R.events)].participating = Contributors

\* ------------------------------------------------------------- C14
\* C14: an orchestrator Start for a round not in signed whose task the
\* validator rejects ends run with an error, nothing being broadcast and no
\* partial stored for the round; an orchestrator Start for a round in signed is
\* dropped before the validator is consulted and never ends run, whatever its
\* metadata.
C14_InvalidTaskFatalReplayNot ==
    /\ DOMAIN signatures \subseteq signed
    /\ pc = "err_validator" => \E r \in signed : r \notin DOMAIN signatures /\ SentFor(r) = {}
    /\ \A r \in Rounds, m \in Metadata, sendOk \in BOOLEAN :
          LET R == Handle(self.orchestrator, StartMessage(r, m), sendOk) IN
          /\ (r \notin signed /\ validate_and_return_expected_hash(StartMessage(r, m)) = None)
                => /\ R.pc = "err_validator"
                   /\ R.sent = sent
                   /\ R.signatures = signatures
                   /\ r \notin DOMAIN R.signatures
                   /\ R.events = events
          /\ r \in signed
                => /\ R.outcome = "already_signed"
                   /\ R.pc = "recv"
                   /\ R.sent = sent
                   /\ R.signed = signed
                   /\ R.signatures = signatures
                   /\ R.events = events

\* A round is signed and another is not: the orchestrator's Start with a
\* rejected task is dropped for the first and ends run for the second.
C14_Witness ==
    /\ pc = "recv"
    /\ \E r \in signed : Handle(self.orchestrator, StartMessage(r, 0), TRUE).outcome = "already_signed"
    /\ \E r \in Rounds \ signed : Handle(self.orchestrator, StartMessage(r, 0), TRUE).pc = "err_validator"

\* ------------------------------------------------------------- C15
\* No step of run starts in a state where it has returned the send error.
C15_NoStepAfterSendError == pc # "err_send"

\* A failing send, wherever the iteration calls it, ends run with the error.
C15_SendErrorEndsRun ==
    /\ \A r \in Rounds, m \in Metadata :
          LET R == Handle(self.orchestrator, StartMessage(r, m), FALSE) IN
          (r \notin signed /\ m \in ValidMetadata)
              => /\ R.outcome = "send_error"
                 /\ R.pc = "err_send"
                 /\ R.sent = sent
    /\ \A s \in Keys, bytes \in Inbound :
          LET R == Handle(s, bytes, FALSE) IN
          R.outcome = "send_error" => R.pc = "err_send"

\* C15: if sender.send returns an error while the node broadcasts its own
\* partial of round r, run ends with an error and no further inbound message is
\* processed.
C15_BroadcastFailureFatal ==
    [][C15_NoStepAfterSendError]_vars /\ []C15_SendErrorEndsRun

\* The broadcast of the second round fails: run has ended, the round is signed
\* and nothing went out for it.
C15_Witness ==
    /\ pc = "err_send"
    /\ sent # <<>>
    /\ \E r \in signed : SentFor(r) = {} /\ r \in DOMAIN signatures

\* ------------------------------------------------------------- C16
\* The step in which recv returns its error is the one that changes nothing but
\* where run is: it returns Ok(()), sends nothing and emits no event.
C16_RecvErrorReturnsOk ==
    /\ (pc' # pc /\ UNCHANGED <<signed, signatures, sent, events>>) => pc' = "ok"
    /\ pc' = "ok" => (pc = "recv" /\ UNCHANGED <<signed, signatures, sent, events>>)

\* After any prefix of messages that did not end run, the error of recv is taken.
C16_CanClose == pc = "recv" => ENABLED RecvError

\* C16: if recv returns an error after any prefix of inbound messages that did
\* not itself end run, run returns success, sending nothing further and emitting
\* no further event; with a transport that eventually closes, run eventually
\* terminates.
C16_CleanShutdown ==
    [][C16_RecvErrorReturnsOk]_vars /\ []C16_CanClose /\ <>(pc # "recv")

\* run returned Ok(()) after rounds were signed and an aggregation was logged.
C16_Witness ==
    /\ pc = "ok"
    /\ sent # <<>>
    /\ events # <<>>

\* ------------------------------------------------------------- C17
\* C17: a node constructed without an aggregation block never stores a peer
\* partial and never emits an aggregation event (signatures[r] only ever holds
\* the index me), whatever it receives, while on an orchestrator Start it signs
\* and broadcasts exactly as an aggregator does.
C17_NonAggregatorRole ==
    /\ ~IsAggregator =>
          /\ events = <<>>
          /\ \A r \in DOMAIN signatures : DOMAIN signatures[r] = {self.me}
          /\ \A s \in Keys \ {self.orchestrator}, bytes \in Inbound :
                LET R == Handle(s, bytes, TRUE) IN
                /\ R.signatures = signatures
                /\ R.events = events
                /\ R.sent = sent
                /\ R.signed = signed
                /\ R.pc = "recv"
    /\ \A r \in Rounds \ signed, m \in ValidMetadata :
          LET R == Handle(self.orchestrator, StartMessage(r, m), TRUE)
              signature == sign(self.signer, <<r, m>>)
          IN
          /\ R.pc = "recv"
          /\ R.signed = signed \cup {r}
          /\ R.events = events
          /\ DOMAIN R.signatures = DOMAIN signatures \cup {r}
          /\ R.signatures[r] = (self.me :> signature)
          /\ \A r2 \in DOMAIN signatures : R.signatures[r2] = signatures[r2]
          /\ R.sent = Append(sent,
                             [recipients |-> "All",
                              message |-> PartialMessage(self.signer, r, m),
                              reliable |-> TRUE])

\* A node without an aggregation block has signed a round; a member's valid
\* partial of that round arrives and is ignored.
C17_Witness ==
    /\ pc = "recv"
    /\ ~IsAggregator
    /\ \E r \in DOMAIN signatures :
          /\ SentFor(r) # {}
          /\ \E s \in Members \ {self.signer, self.orchestrator} :
                LET R == Handle(s, PartialMessage(s, r, StartMetadata(r)), TRUE) IN
                R.outcome = "not_start" /\ R.signatures = signatures

C19_StepHandled(s, bytes) ==
    LET R == Handle(s, bytes, TRUE) IN
    /\ R.signatures = signatures'
    /\ R.events = events'
    /\ R.signed = signed'
    /\ R.sent = sent'
    /\ R.pc = pc'
    /\ R.carrier = carrier'

\* A step that stored the partial of a peer's Signature message stored exactly
\* one and emitted at most one event, and the same message handled next is
\* dropped: the state is as without the repetition.
C19_ReplayDropped ==
    (signatures' # signatures /\ pc' = "recv") =>
        \A s \in Keys \ {self.orchestrator}, bytes \in Inbound :
            LET m == Decode(bytes) IN
            (m # None /\ m[1].payload.tag = "Signature" /\ C19_StepHandled(s, bytes))
            => /\ Len(events') <= Len(events) + 1
               /\ count(m[1].round)' = count(m[1].round) + 1
               /\ \A r \in Rounds \ {m[1].round} : count(r)' = count(r)
               /\ LET R2 == Handle(s, bytes, TRUE)' IN
                  /\ R2.outcome = "contributor_already_signed"
                  /\ R2.signatures = signatures'
                  /\ R2.events = events'
                  /\ R2.signed = signed'
                  /\ R2.sent = sent'
                  /\ R2.pc = pc'

\* The message that brought a stored peer partial, handled again, changes nothing.
C19_StoredReplayDropped ==
    pc = "recv" =>
        \A r \in DOMAIN signatures :
            \A i \in DOMAIN signatures[r] \ {self.me} :
                LET R == Handle(carrier[<<r, i>>].sender, carrier[<<r, i>>].bytes, TRUE) IN
                /\ R.outcome = "contributor_already_signed"
                /\ R.signatures = signatures
                /\ R.events = events
                /\ R.signed = signed
                /\ R.sent = sent
                /\ R.pc = "recv"

\* C19: for every input sequence, a peer Signature message repeated immediately
\* leaves signed, signatures, the outbound messages and the aggregation events
\* as they are without the repetition: one partial stored and at most one event
\* from the pair.
C19_ReplayIdempotence == [][C19_ReplayDropped]_vars /\ []C19_StoredReplayDropped

\* A peer's partial was stored and aggregated; its message arrives again and is
\* dropped.
C19_Witness ==
    /\ pc = "recv"
    /\ events # <<>>
    /\ LET e == events[Len(events)] IN
       \E i \in DOMAIN signatures[e.round] \ {self.me} :
           LET c == carrier[<<e.round, i>>] IN
           /\ c.sender \in Range(e.participating)
           /\ Handle(c.sender, c.bytes, TRUE).outcome = "contributor_already_signed"

\* ------------------------------------------------------------- C20
\* C20: for every node constructed by Contributor::new with an aggregation
\* input, g1_map has an entry for every member and 1 <= threshold <= n, so that
\* collecting g1_map[key] of the participating members never fails.
C20_AggregationBlockWellFormed ==
    IsAggregator =>
        /\ Range(Contributors) \subseteq DOMAIN self.aggregation_data[1].g1_map
        /\ 1 <= Threshold
        /\ Threshold <= Len(Contributors)
        /\ pc # "panic_g1_map"

\* ------------------------------------------------------------- C21
\* C21: for every input list of keys that holds the signer's key, in any order
\* and with or without repeated keys, the constructed members are sorted
\* ascending and deduplicated, index_of is a bijection from the members onto
\* 0..n-1 with members[index_of(k)] = k, and self_index = index_of(self_key).
C21_MembershipWellFormed ==
    IsAggregator =>
        LET n == Len(Contributors) IN
        /\ \A i, j \in 1..n : i < j => Contributors[i] < Contributors[j]
        /\ DOMAIN OrderedContributors = Range(Contributors)
        /\ {OrderedContributors[k] : k \in DOMAIN OrderedContributors} = 0..(n - 1)
        /\ \A k \in DOMAIN OrderedContributors :
              Contributors[OrderedContributors[k] + 1] = k
        /\ self.me = OrderedContributors[self.signer]

\* ------------------------------------------------------------- C22
\* C22: for every node, with or without an aggregation block,
\* get_contributor_index(k) is the position of k in the sorted members when k
\* is a member (self_index for the node's own key) and none when it is not.
C22_MembershipLookup ==
    LET members == SortKeys(ContributorsInput) IN
    /\ \A k \in Keys :
          get_contributor_index(k) =
              IF k \in Range(members)
              THEN Some((CHOOSE i \in 1..Len(members) : members[i] = k) - 1)
              ELSE None
    /\ get_contributor_index(self.signer) = Some(self.me)

\* ------------------------------------------------------------- C23
\* The places of run where a message is dropped
C23_Drops ==
    {"undecodable", "contributor_not_found", "signatures_not_found",
     "contributor_already_signed", "signature_not_found", "not_a_valid_signature",
     "failed_to_validate_payload", "invalid_signature", "not_start",
     "not_from_orchestrator", "already_signed"}

\* C23: whenever a message is dropped (undecodable bytes, unknown sender, no
\* entry for the round, duplicate (round, sender), payload variant mismatch on
\* either path, invalid signature bytes, validator rejection of a peer message,
\* failed individual verification, Start replay for a signed round), signed and
\* signatures are as before the message, nothing is sent, no aggregation event
\* is emitted, and the loop continues with the next message.
C23_DropsHaveNoEffect ==
    \A s \in Keys, bytes \in Inbound, sendOk \in BOOLEAN :
        LET R == Handle(s, bytes, sendOk)
            m == Decode(bytes)
            peer == IsAggregator /\ s # self.orchestrator
            idx == get_contributor_index(s)
            sig == try_from(m[1].payload.sig)
            hash == validate_and_return_expected_hash(bytes)
            dropped ==
                \/ m = None
                \/ peer /\ idx = None
                \/ peer /\ m[1].round \notin DOMAIN signatures
                \/ peer /\ idx # None /\ m[1].round \in DOMAIN signatures
                        /\ idx[1] \in DOMAIN signatures[m[1].round]
                \/ peer /\ m[1].payload.tag # "Signature"
                \/ ~peer /\ m[1].payload.tag # "Start"
                \/ ~peer /\ s # self.orchestrator
                \/ peer /\ m[1].payload.tag = "Signature" /\ sig = None
                \/ peer /\ m[1].payload.tag = "Signature" /\ hash = None
                \/ peer /\ m[1].payload.tag = "Signature" /\ sig # None /\ hash # None
                        /\ ~aggregate_verify(<<s>>, hash[1], sig[1])
                \/ s = self.orchestrator /\ m[1].payload.tag = "Start"
                        /\ m[1].round \in signed
        IN
        /\ dropped <=> R.outcome \in C23_Drops
        /\ dropped =>
              /\ R.signed = signed
              /\ R.signatures = signatures
              /\ R.sent = sent
              /\ R.events = events
              /\ R.pc = "recv"

\* On an aggregator with an open round, a message is dropped at each place of
\* the loop that drops one.
C23_Witness ==
    /\ pc = "recv"
    /\ IsAggregator
    /\ signatures # <<>>
    /\ \A o \in C23_Drops \ {"not_from_orchestrator"} :
          \E s \in Keys, bytes \in Inbound : Handle(s, bytes, TRUE).outcome = o

\* ------------------------------------------------------------- C24
\* C24: when aggregate_signatures fails at the threshold, no event is emitted,
\* the partial just inserted stays in the round's map, run continues, and a
\* later message for that round can cause another aggregation attempt.
C24_AggregationFailureKeepsState ==
    IsAggregator =>
        /\ \A s \in Keys, bytes \in Inbound :
              LET R == Iteration(s, bytes, TRUE, FALSE) IN
              R.outcome = "aggregate_failed" =>
                  LET r == Decode(bytes)[1].round
                      i == get_contributor_index(s)[1]
                  IN
                  /\ R.pc = "recv"
                  /\ R.events = events
                  /\ R.sent = sent
                  /\ R.signed = signed
                  /\ i \notin DOMAIN signatures[r]
                  /\ DOMAIN R.signatures[r] = DOMAIN signatures[r] \cup {i}
                  /\ R.signatures[r][i] = try_from(Decode(bytes)[1].payload.sig)[1]
                  /\ \A j \in DOMAIN signatures[r] : R.signatures[r][j] = signatures[r][j]
                  /\ Cardinality(DOMAIN R.signatures[r]) >= Threshold
        /\ \A r \in DOMAIN signatures :
              count(r) >= Threshold =>
                  \A s \in Range(Contributors) \ {self.orchestrator}, m \in ValidMetadata :
                      OrderedContributors[s] \notin DOMAIN signatures[r] =>
                          /\ Handle(s, PartialMessage(s, r, m), TRUE).outcome
                                \in {"aggregated", "panic_aggregate_verify"}
                          /\ Iteration(s, PartialMessage(s, r, m), TRUE, FALSE).outcome
                                = "aggregate_failed"
                          /\ (AllOverStartTask(r) /\ m = StartMetadata(r)) =>
                                Handle(s, PartialMessage(s, r, m), TRUE).outcome = "aggregated"

\* An aggregation failed: the round holds partials at the threshold and no
\* event; the partial of a further member is then aggregated.
C24_Witness ==
    /\ pc = "recv"
    /\ IsAggregator
    /\ \E r \in DOMAIN signatures :
          /\ count(r) >= 2
          /\ count(r) >= Threshold
          /\ EventsOf(r) = {}
          /\ AllOverStartTask(r)
          /\ \E s \in Range(Contributors) \ {self.orchestrator} :
                /\ OrderedContributors[s] \notin DOMAIN signatures[r]
                /\ Handle(s, PartialMessage(s, r, StartMetadata(r)), TRUE).outcome
                      = "aggregated"

\* ------------------------------------------------------------- C25
\* C25: every time run waits on recv, the rounds that have an entry in
\* signatures are the rounds in signed, and every entry holds a partial at the
\* index me; so the participating list of every aggregation event holds the
\* node's own key.
C25_LoopInvariant ==
    /\ pc = "recv" =>
          /\ DOMAIN signatures = signed
          /\ \A r \in DOMAIN signatures : self.me \in DOMAIN signatures[r]
    /\ \A i \in 1..Len(events) : self.signer \in Range(events[i].participating)

\* Two rounds are signed, an aggregation was logged, and run waits on recv.
C25_Witness ==
    /\ pc = "recv"
    /\ Cardinality(signed) = 2
    /\ events # <<>>
    /\ self.me # 0

\* ------------------------------------------------------------- C26
\* C26: handling a message whose round is r leaves signatures[q] and whether q
\* is in signed as they were for every round q other than r, and every
\* aggregation event and every outbound message it adds is for round r.
C26_RoundIsolation ==
    pc = "recv" =>
        \A s \in Keys, bytes \in Inbound,
           ok \in {<<TRUE, TRUE>>, <<FALSE, TRUE>>, <<TRUE, FALSE>>} :
            LET R == Iteration(s, bytes, ok[1], ok[2])
                m == Decode(bytes)
            IN
            m # None =>
                LET r == m[1].round IN
                /\ \A q \in Rounds \ {r} :
                      /\ q \in R.signed <=> q \in signed
                      /\ q \in DOMAIN R.signatures <=> q \in DOMAIN signatures
                      /\ q \in DOMAIN signatures => R.signatures[q] = signatures[q]
                /\ Len(R.events) >= Len(events)
                /\ \A i \in 1..Len(R.events) :
                      IF i <= Len(events) THEN R.events[i] = events[i]
                      ELSE R.events[i].round = r
                /\ Len(R.sent) >= Len(sent)
                /\ \A i \in 1..Len(R.sent) :
                      IF i <= Len(sent) THEN R.sent[i] = sent[i]
                      ELSE Decode(R.sent[i].message)[1].round = r

\* Two rounds are open on an aggregator, one of them holding a peer's partial;
\* a partial for the other round is stored and aggregated.
C26_Witness ==
    /\ pc = "recv"
    /\ IsAggregator
    /\ \E r, q \in DOMAIN signatures :
          /\ r # q
          /\ count(q) >= 2
          /\ \E s \in Keys, bytes \in Inbound :
                /\ Decode(bytes) # None
                /\ Decode(bytes)[1].round = r
                /\ Handle(s, bytes, TRUE).outcome = "aggregated"
                /\ Handle(s, bytes, TRUE).signatures[r] # signatures[r]

\* ------------------------------------------------------------- C27
\* The index of a member in the sorted membership.
index_of(k) == Enumerate(SortKeys(ContributorsInput))[k]

\* Handling a Signature message of the orchestrator changes nothing.
C27_OrchestratorSignatureDropped ==
    pc = "recv" =>
        \A bytes \in Inbound, sendOk \in BOOLEAN :
            (Decode(bytes) # None /\ Decode(bytes)[1].payload.tag = "Signature") =>
                LET R == Handle(self.orchestrator, bytes, sendOk) IN
                /\ R.signatures = signatures
                /\ R.signed = signed
                /\ R.sent = sent
                /\ R.events = events
                /\ R.pc = "recv"

\* C27: a Signature message whose sender is the orchestrator is never stored in
\* signatures, also when the orchestrator is a member; so, unless the node is
\* itself the orchestrator, no round's entry holds a partial at the
\* orchestrator's index.
C27_OrchestratorNeverPeer ==
    /\ C27_OrchestratorSignatureDropped
    /\ \A key \in DOMAIN carrier :
          carrier[key].sender = self.orchestrator =>
              /\ Decode(carrier[key].bytes)[1].payload.tag = "Start"
              /\ key[2] = self.me
    /\ (self.orchestrator \in Members /\ self.orchestrator # self.signer) =>
          \A r \in DOMAIN signatures :
              index_of(self.orchestrator) \notin DOMAIN signatures[r]

\* On an aggregator whose orchestrator is another member, a round holds a
\* peer's partial and is below the threshold; the orchestrator's own valid
\* partial for the round arrives and is not stored.
C27_Witness ==
    /\ pc = "recv"
    /\ IsAggregator
    /\ self.orchestrator \in Members
    /\ self.orchestrator # self.signer
    /\ \E r \in DOMAIN signatures :
          /\ count(r) = 2
          /\ Threshold = 3
          /\ AllOverStartTask(r)
          /\ LET bytes == PartialMessage(self.orchestrator, r, StartMetadata(r)) IN
             /\ bytes \in Inbound
             /\ VerifyPartial(self.orchestrator,
                              validate_and_return_expected_hash(bytes)[1],
                              try_from(Decode(bytes)[1].payload.sig)[1])
             /\ Handle(self.orchestrator, bytes, TRUE).outcome = "not_start"

\* ------------------------------------------------------------- C28
\* C28: for the same membership, orchestrator, signer, threshold and g1 map,
\* an iteration of AggregatingContributor::run and an iteration of
\* Contributor::run with an aggregation block, on the same message and from the
\* same partials and signed set, leave the same outbound messages, the same
\* aggregation events, the same partials and signed set, and the same run
\* outcome; so the two runs agree on every sequence of inbound messages.
C28_ImplementationsAgree ==
    (IsAggregator /\ pc = "recv") =>
        \A s \in Keys, bytes \in Inbound,
           ok \in {<<TRUE, TRUE>>, <<FALSE, TRUE>>, <<TRUE, FALSE>>} :
            AggregatingIteration(s, bytes, ok[1], ok[2])
                = Iteration(s, bytes, ok[1], ok[2])

\* AggregatingContributor::run has signed two rounds and logged an aggregation,
\* and a peer's partial is about to be aggregated by both implementations.
C28_Witness ==
    /\ pc = "recv"
    /\ IsAggregator
    /\ Cardinality(signed) = 2
    /\ events # <<>>
    /\ sent # <<>>
    /\ \E s \in Keys, bytes \in Inbound :
          /\ AggregatingIteration(s, bytes, TRUE, TRUE).outcome = "aggregated"
          /\ Iteration(s, bytes, TRUE, TRUE).outcome = "aggregated"

====
